---- MODULE Spec2Model ----
(***************************************************************************)
(* Model of the push coordinator (src/interactable_objects/push.js) and of *)
(* the tile events it relocates (src/base/tile_events/TileEvent.ts).       *)
(***************************************************************************)
EXTENDS Integers, Sequences, FiniteSets, Bags, TLC

\* Number of pushes (normal or target-only) that proceed in one behaviour.
MaxPushes == 2
\* Number of tile events constructed in one behaviour, the map's included.
MaxConstructed == 10

Cardinals == {"up", "down", "left", "right"}
\* Values data.trying_to_push_direction / data.actual_direction may hold.
Directions == Cardinals \cup {"up_left"}

ObjectIds == {"A", "B"}

VARIABLES
    ev_x, ev_y, location_key, active,      \* TileEvent fields, per event id
    events,                                \* maps[data.map_name].events
    current_x, current_y,                  \* interactable object position
    hero,                                  \* data.hero.x / data.hero.y
    trying_to_push, trying_to_push_direction, push_timer,
    actual_direction, casting_psynergy, jumping,
    pushing, actual_action,
    paused, pause_calls, resume_calls,     \* game.physics.p2
    promises,                              \* pushes awaiting their transitions
    id_incrementer, TileEvent_events,      \* TileEvent statics
    constructed,                           \* tile events constructed so far
    created,                               \* those constructed since the reset
    disabled, current_signal_bindings,     \* ControlManager fields
    current_set_key, signal_bindings,
    loop_start_timer, loop_repeat_timer,
    listeners,                             \* signal bindings created so far
    is_down,                               \* gamepad buttons held down
    animations, not_available,             \* BattleAnimationManager fields
    render_function,
    loading, playing,                      \* its load / play calls in flight
    calls                                  \* what the last handler called, in order

vars == <<ev_x, ev_y, location_key, active, events, current_x, current_y,
          hero, trying_to_push, trying_to_push_direction, push_timer,
          actual_direction, casting_psynergy, jumping, pushing,
          actual_action, paused, pause_calls, resume_calls, promises,
          id_incrementer, TileEvent_events, constructed, created,
          disabled, current_signal_bindings, current_set_key,
          signal_bindings, loop_start_timer, loop_repeat_timer, listeners,
          is_down, animations, not_available, render_function, loading,
          playing, calls>>

identityVars == <<id_incrementer, TileEvent_events, constructed, created>>
\* What the push coordinator works on, the activation flags apart.
pushVars == <<ev_x, ev_y, location_key, events, current_x, current_y, hero,
              trying_to_push, trying_to_push_direction, push_timer,
              actual_direction, casting_psynergy, jumping, pushing,
              actual_action, paused, pause_calls, resume_calls, promises>>
controlVars == <<disabled, current_signal_bindings, current_set_key,
                 signal_bindings, loop_start_timer, loop_repeat_timer,
                 listeners, is_down>>
animationVars == <<animations, not_available, render_function, loading,
                   playing>>
inputVars == <<hero, actual_direction, casting_psynergy, jumping>>

-----------------------------------------------------------------------------
(* Tile events of the map.  Event id e is row e + 1.                        *)

EventTable == <<
    [type |-> "jump", x |-> 0, y |-> 0, dynamic |-> FALSE, layers |-> {1},
     dirs |-> <<"up", "down", "left", "right">>],
    [type |-> "jump", x |-> 1, y |-> 0, dynamic |-> FALSE, layers |-> {1},
     dirs |-> <<"up", "down", "left", "right">>],
    [type |-> "jump", x |-> 0, y |-> 2, dynamic |-> FALSE, layers |-> {1, 2},
     dirs |-> <<"up", "down", "left", "right">>],
    [type |-> "jump", x |-> 3, y |-> 0, dynamic |-> FALSE, layers |-> {1},
     dirs |-> <<"left", "right">>],
    [type |-> "step", x |-> 0, y |-> 0, dynamic |-> FALSE, layers |-> {0},
     dirs |-> <<"up", "down", "left", "right">>],
    [type |-> "jump", x |-> -1, y |-> 0, dynamic |-> TRUE, layers |-> {1},
     dirs |-> <<"up", "down", "left", "right">>] >>

EventIds == 0 .. (Len(EventTable) - 1)

type(e) == EventTable[e + 1].type
dynamic(e) == EventTable[e + 1].dynamic
activation_collision_layers(e) == EventTable[e + 1].layers
activation_directions(e) == EventTable[e + 1].dirs

\* interactable_object.get_events()
get_events(o) == IF o = "A" THEN <<0, 1>> ELSE <<2>>
\* interactable_object.base_collider_layer
base_collider_layer(o) == IF o = "A" THEN 0 ELSE 1
\* interactable_object.events_info.jump.collide_layer_shift
collide_layer_shift(o) == 1
\* interactable_object.interactable_object_sprite.x / .y
sprite(o) == IF o = "A" THEN [x |-> 0, y |-> 0] ELSE [x |-> 0, y |-> 2]

-----------------------------------------------------------------------------
(* TileEvent.ts                                                             *)

\* static get_location_key(x, y): the template string `${x}_${y}`.
get_location_key_no_separator(x, y) == ToString(x) \o ToString(y)
get_location_key(x, y) == ToString(x) \o "_" \o ToString(y)

\* Array.prototype.indexOf on a 0-based array; -1 when absent.
indexOf(s, d) ==
    IF \E i \in 1 .. Len(s) : s[i] = d
    THEN (CHOOSE i \in 1 .. Len(s) :
              s[i] = d /\ \A j \in 1 .. (i - 1) : s[j] # d) - 1
    ELSE -1

\* The active array of an event: slots 0 .. n-1 are the per-direction flags,
\* slot -1 is the property written by an assignment at index -1.
new_active(e, v) == [i \in -1 .. (Len(activation_directions(e)) - 1) |->
                        IF i = -1 THEN FALSE ELSE v]

activate_at(act, e, d) ==
    [act EXCEPT ![e][indexOf(activation_directions(e), d)] = TRUE]

deactivate_at(act, e, d) ==
    [act EXCEPT ![e][indexOf(activation_directions(e), d)] = FALSE]

\* this.active = this.active.map(() => true): a new array, which holds the
\* index slots only; its slot -1 is unset again.
activate(act, e) ==
    [act EXCEPT ![e] = [i \in DOMAIN @ |-> IF i = -1 THEN FALSE ELSE TRUE]]

deactivate(act, e) ==
    [act EXCEPT ![e] = [i \in DOMAIN @ |-> FALSE]]

\* split_direction (utils.js): the elementary directions of a direction.
split_direction(d) ==
    IF d = "up_left" THEN <<"up", "left">> ELSE <<d>>

\* is_active(direction): a read at index -1 yields what slot -1 holds.
is_active(act, e, direction) ==
    LET possible_directions == split_direction(direction)
    IN \E i \in 1 .. Len(possible_directions) :
           act[e][indexOf(activation_directions(e), possible_directions[i])]

-----------------------------------------------------------------------------
(* Directional geometry helpers (utils.js).                                 *)

get_surroundings(x, y, shift) ==
    << [x |-> x - shift, y |-> y, direction |-> "left"],
       [x |-> x + shift, y |-> y, direction |-> "right"],
       [x |-> x, y |-> y - shift, direction |-> "up"],
       [x |-> x, y |-> y + shift, direction |-> "down"] >>

get_opposite_direcion(d) ==
    CASE d = "up" -> "down"
      [] d = "down" -> "up"
      [] d = "left" -> "right"
      [] d = "right" -> "left"

-----------------------------------------------------------------------------
(* The per-map registry: a function from location keys to sequences of      *)
(* event ids.                                                               *)

\* Insertion of an event under a key, creating the bucket when the key is
\* absent (push.js 76-79).
registry_insert_overwrite(reg, k, e) ==
    IF k \in DOMAIN reg
    THEN [reg EXCEPT ![k] = <<e>>]
    ELSE reg @@ (k :> <<e>>)

registry_insert(reg, k, e) ==
    IF k \in DOMAIN reg
    THEN [reg EXCEPT ![k] = Append(@, e)]
    ELSE reg @@ (k :> <<e>>)

\* Removal of an event from its bucket, deleting the bucket it empties
\* (push.js 62-67).
registry_remove_keep_empty(reg, k, e) ==
    [reg EXCEPT ![k] = SelectSeq(@, LAMBDA f : f # e)]

registry_remove_whole_bucket(reg, k, e) ==
    [kk \in (DOMAIN reg) \ {k} |-> reg[kk]]

registry_remove(reg, k, e) ==
    LET filtered == SelectSeq(reg[k], LAMBDA f : f # e)
    IN IF Len(filtered) = 0
       THEN [kk \in (DOMAIN reg) \ {k} |-> reg[kk]]
       ELSE [reg EXCEPT ![k] = filtered]

\* The registry of the map as loaded: every event under its key.
RECURSIVE load_events(_, _)
load_events(reg, e) ==
    IF e \notin EventIds THEN reg
    ELSE LET k == get_location_key(EventTable[e + 1].x, EventTable[e + 1].y)
         IN load_events(IF k \in DOMAIN reg
                        THEN [reg EXCEPT ![k] = Append(@, e)]
                        ELSE reg @@ (k :> <<e>>),
                        e + 1)

EmptyRegistry == [k \in {} |-> <<>>]

\* The registry of a map whose events have the given keys.
RECURSIVE register_all(_, _, _)
register_all(reg, e, keys) ==
    IF e \notin EventIds THEN reg
    ELSE register_all(IF keys[e] \in DOMAIN reg
                      THEN [reg EXCEPT ![keys[e]] = Append(@, e)]
                      ELSE reg @@ (keys[e] :> <<e>>),
                      e + 1, keys)

-----------------------------------------------------------------------------
(* Neighbour reconciliation of jump events.                                 *)

\* One bucket of JumpEvent.active_jump_surroundings.
RECURSIVE activate_bucket(_, _, _, _)
activate_bucket(act, bucket, k, target_layer) ==
    IF k > Len(bucket) THEN act
    ELSE LET surr_event == bucket[k]
         IN activate_bucket(
                IF /\ type(surr_event) = "jump"
                   /\ target_layer \in activation_collision_layers(surr_event)
                THEN activate(act, surr_event)
                ELSE act,
                bucket, k + 1, target_layer)

\* JumpEvent.active_jump_surroundings(data, surroundings, target_layer)
RECURSIVE active_jump_surroundings(_, _, _, _, _)
active_jump_surroundings(act, reg, surroundings, j, target_layer) ==
    IF j > Len(surroundings) THEN act
    ELSE LET this_key == get_location_key(surroundings[j].x, surroundings[j].y)
         IN active_jump_surroundings(
                IF this_key \in DOMAIN reg
                THEN activate_bucket(act, reg[this_key], 1, target_layer)
                ELSE act,
                reg, surroundings, j + 1, target_layer)

\* The inner loop over one bucket of the old surroundings (push.js 87-95).
RECURSIVE deactivate_bucket_dynamic_too(_, _, _, _, _)
deactivate_bucket_dynamic_too(act, bucket, k, direction, target_layer) ==
    IF k > Len(bucket) THEN act
    ELSE LET old_surr_event == bucket[k]
         IN deactivate_bucket_dynamic_too(
                IF /\ type(old_surr_event) = "jump"
                   /\ target_layer \in activation_collision_layers(old_surr_event)
                THEN deactivate_at(act, old_surr_event,
                                   get_opposite_direcion(direction))
                ELSE act,
                bucket, k + 1, direction, target_layer)

RECURSIVE deactivate_bucket(_, _, _, _, _)
deactivate_bucket(act, bucket, k, direction, target_layer) ==
    IF k > Len(bucket) THEN act
    ELSE LET old_surr_event == bucket[k]
         IN deactivate_bucket(
                IF /\ type(old_surr_event) = "jump"
                   /\ target_layer \in activation_collision_layers(old_surr_event)
                   /\ dynamic(old_surr_event) = FALSE
                THEN deactivate_at(act, old_surr_event,
                                   get_opposite_direcion(direction))
                ELSE act,
                bucket, k + 1, direction, target_layer)

\* The loop over the old surroundings (push.js 83-97).
RECURSIVE deactivate_old_surroundings(_, _, _, _, _)
deactivate_old_surroundings(act, reg, old_surroundings, j, target_layer) ==
    IF j > Len(old_surroundings) THEN act
    ELSE LET old_surrounding == old_surroundings[j]
             old_key == get_location_key(old_surrounding.x, old_surrounding.y)
         IN deactivate_old_surroundings(
                IF old_key \in DOMAIN reg
                THEN deactivate_bucket(act, reg[old_key], 1,
                                       old_surrounding.direction, target_layer)
                ELSE act,
                reg, old_surroundings, j + 1, target_layer)

-----------------------------------------------------------------------------
(* fire_push_movement: direction validation and relocation.                 *)

\* The quadrant classification (push.js 21-31); "undefined" when no branch
\* is taken.
expected_position_strict(hx, hy, sx, sy) ==
    LET positive_limit == hx + (-sy - sx)
        negative_limit == -hx + (-sy + sx)
    IN IF -hy > positive_limit /\ -hy > negative_limit THEN "down"
       ELSE IF -hy < positive_limit /\ -hy > negative_limit THEN "left"
       ELSE IF -hy < positive_limit /\ -hy < negative_limit THEN "up"
       ELSE IF -hy > positive_limit /\ -hy < negative_limit THEN "right"
       ELSE "undefined"

expected_position(hx, hy, sx, sy) ==
    LET positive_limit == hx + (-sy - sx)
        negative_limit == -hx + (-sy + sx)
    IN IF -hy >= positive_limit /\ -hy >= negative_limit THEN "down"
       ELSE IF -hy <= positive_limit /\ -hy >= negative_limit THEN "left"
       ELSE IF -hy <= positive_limit /\ -hy <= negative_limit THEN "up"
       ELSE IF -hy >= positive_limit /\ -hy <= negative_limit THEN "right"
       ELSE "undefined"

\* The switch on data.trying_to_push_direction (push.js 39-58).
event_shift_flipped(d) ==
    CASE d = "up" -> [x |-> 0, y |-> 1]
      [] d = "down" -> [x |-> 0, y |-> -1]
      [] d = "left" -> [x |-> -1, y |-> 0]
      [] d = "right" -> [x |-> 1, y |-> 0]
      [] OTHER -> [x |-> 0, y |-> 0]

event_shift(d) ==
    CASE d = "up" -> [x |-> 0, y |-> -1]
      [] d = "down" -> [x |-> 0, y |-> 1]
      [] d = "left" -> [x |-> -1, y |-> 0]
      [] d = "right" -> [x |-> 1, y |-> 0]
      [] OTHER -> [x |-> 0, y |-> 0]

\* const new_event_location_key = ... (push.js 72)
new_event_location_key_swapped(new_x, new_y) == get_location_key(new_y, new_x)
new_event_location_key(new_x, new_y) == get_location_key(new_x, new_y)

\* The event state the relocation loop works on.
World == [events |-> events, x |-> ev_x, y |-> ev_y, key |-> location_key,
          active |-> active, err |-> FALSE]

\* One iteration of the relocation loop (push.js 61-97).  Filtering a bucket
\* that does not exist throws; err records it.
relocate_event(w, event, event_shift_x, event_shift_y, o) ==
    IF w.key[event] \notin DOMAIN w.events
    THEN [w EXCEPT !.err = TRUE]
    ELSE LET removed == registry_remove(w.events, w.key[event], event)
             old_x == w.x[event]
             old_y == w.y[event]
             new_x == old_x + event_shift_x
             new_y == old_y + event_shift_y
             new_key == new_event_location_key(new_x, new_y)
             inserted == registry_insert(removed, new_key, event)
             target_layer == collide_layer_shift(o) + base_collider_layer(o)
             activated == active_jump_surroundings(w.active, inserted,
                              get_surroundings(new_x, new_y, 2), 1, target_layer)
             deactivated == deactivate_old_surroundings(activated, inserted,
                              get_surroundings(old_x, old_y, 2), 1, target_layer)
         IN [events |-> inserted,
             x |-> [w.x EXCEPT ![event] = new_x],
             y |-> [w.y EXCEPT ![event] = new_y],
             key |-> [w.key EXCEPT ![event] = new_key],
             active |-> deactivated,
             err |-> FALSE]

\* The relocation loop over object_events (push.js 59-98).
RECURSIVE relocate(_, _, _, _, _, _)
relocate(w, object_events, i, event_shift_x, event_shift_y, o) ==
    IF i > Len(object_events) \/ w.err THEN w
    ELSE relocate(relocate_event(w, object_events[i],
                                 event_shift_x, event_shift_y, o),
                  object_events, i + 1, event_shift_x, event_shift_y, o)

-----------------------------------------------------------------------------
(* Pushes in flight.  A push that has issued its transitions is a record    *)
(* [obj, target_only, pending, push_end]; promises is the bag of them.      *)

\* The bodies whose transitions a push issues (push.js 99-102).
sprites(target_only) ==
    IF target_only THEN {"object"} ELSE {"object", "shadow", "hero"}

InFlight == BagToSet(promises)

\* The condition Promise.all(promises) waits for (push.js 127): every
\* transition of the push has signalled completion.
any_settled(p) == p.pending # sprites(p.target_only)
never_settled(p) == FALSE
all_settled(p) == p.pending = {}

\* The entry condition of normal_push (push.js 7).
normal_push_condition_no_cast ==
    /\ trying_to_push
    /\ trying_to_push_direction \in Cardinals
    /\ trying_to_push_direction = actual_direction
    /\ ~jumping

normal_push_condition_no_facing ==
    /\ trying_to_push
    /\ trying_to_push_direction \in Cardinals
    /\ ~casting_psynergy
    /\ ~jumping

normal_push_condition ==
    /\ trying_to_push
    /\ trying_to_push_direction \in Cardinals
    /\ trying_to_push_direction = actual_direction
    /\ ~casting_psynergy
    /\ ~jumping

\* The condition of push.js 33.
proceeds_always(o, target_only) == TRUE

proceeds_validated(o, target_only) ==
    expected_position(hero.x, hero.y, sprite(o).x, sprite(o).y)
        = trying_to_push_direction

proceeds(o, target_only) ==
    \/ target_only
    \/ expected_position(hero.x, hero.y, sprite(o).x, sprite(o).y)
           = trying_to_push_direction

\* The relocation a push of o performs in the current state.
relocated(o) ==
    LET shift == event_shift(trying_to_push_direction)
    IN relocate(World, get_events(o), 1, shift.x, shift.y, o)

\* What a push that proceeds does, in order (push.js 38-126): pause, the
\* relocation loop, the update of current_x / current_y, the before_move
\* hook if supplied, one tween per body.
push_calls_hook_last(target_only, before_move) ==
    <<"pause", "relocate", "current_x_y">>
        \o (IF target_only THEN <<"tween">> ELSE <<"tween", "tween", "tween">>)
        \o (IF before_move THEN <<"before_move">> ELSE <<>>)

push_calls(target_only, before_move) ==
    <<"pause", "relocate", "current_x_y">>
        \o (IF before_move THEN <<"before_move">> ELSE <<>>)
        \o (IF target_only THEN <<"tween">> ELSE <<"tween", "tween", "tween">>)

\* fire_push_movement(data, interactable_object, push_end, before_move,
\* target_only): everything up to the issuing of the transitions.
fire_push_movement(o, target_only, before_move, push_end, entry) ==
    IF proceeds(o, target_only)
    THEN LET shift == event_shift(trying_to_push_direction)
             w == relocated(o)
         IN /\ pushing' = (IF target_only THEN pushing ELSE TRUE)
            /\ actual_action' = (IF target_only THEN actual_action ELSE "push")
            /\ paused' = TRUE
            /\ pause_calls' = pause_calls + 1
            /\ events' = w.events
            /\ ev_x' = w.x
            /\ ev_y' = w.y
            /\ location_key' = w.key
            /\ active' = w.active
            /\ IF w.err
               THEN /\ UNCHANGED <<current_x, current_y, promises>>
                    /\ calls' = <<entry, o, "fire_push_movement", "pause",
                                  "throw">>
               ELSE /\ current_x' = [current_x EXCEPT ![o] = @ + shift.x]
                    /\ current_y' = [current_y EXCEPT ![o] = @ + shift.y]
                    /\ calls' = <<entry, o, "fire_push_movement">>
                                  \o push_calls(target_only, before_move)
                    /\ promises' = promises (+) SetToBag({
                           [obj |-> o, target_only |-> target_only,
                            pending |-> sprites(target_only),
                            push_end |-> push_end]})
            /\ UNCHANGED resume_calls
    ELSE UNCHANGED <<ev_x, ev_y, location_key, active, events, current_x,
                     current_y, pushing, actual_action, paused, pause_calls,
                     resume_calls, promises>>
         /\ calls' = <<entry, o, "fire_push_movement">>

-----------------------------------------------------------------------------
(* Handlers.                                                                *)

\* normal_push(data, interactable_object)
NormalPush(o) ==
    LET fires == normal_push_condition
        goes == fires /\ proceeds(o, FALSE)
        throws == goes /\ relocated(o).err
    IN /\ goes => pause_calls < MaxPushes
       /\ IF fires
          THEN fire_push_movement(o, FALSE, FALSE, FALSE, "normal_push")
          ELSE /\ UNCHANGED <<ev_x, ev_y, location_key, active, events,
                              current_x, current_y, pushing, actual_action,
                              paused, pause_calls, resume_calls, promises>>
               /\ calls' = <<"normal_push", o>>
       /\ IF throws
          THEN UNCHANGED <<trying_to_push, push_timer>>
          ELSE trying_to_push' = FALSE /\ push_timer' = "null"
       /\ UNCHANGED <<trying_to_push_direction, inputVars, identityVars, controlVars, animationVars>>

\* target_only_push(data, interactable_object, before_move, push_end)
TargetOnlyPush(o, before_move, push_end) ==
    /\ pause_calls < MaxPushes
    /\ fire_push_movement(o, TRUE, before_move, push_end, "target_only_push")
    /\ UNCHANGED <<trying_to_push, trying_to_push_direction, push_timer,
                   inputVars, identityVars, controlVars, animationVars>>

\* The onComplete signal of the transition of body b of push p
\* (push.js 120-125).
TransitionComplete(p, b) ==
    /\ p \in InFlight
    /\ b \in p.pending
    /\ promises' = (promises (-) SetToBag({p}))
                       (+) SetToBag({[p EXCEPT !.pending = @ \ {b}]})
    /\ calls' = <<"onComplete">>
    /\ UNCHANGED <<ev_x, ev_y, location_key, active, events, current_x,
                   current_y, pushing, actual_action, paused, pause_calls,
                   resume_calls, trying_to_push, trying_to_push_direction,
                   push_timer, inputVars, identityVars, controlVars, animationVars>>

\* The continuation of Promise.all(promises) of push p (push.js 127-133).
AllTransitionsDone(p) ==
    /\ p \in InFlight
    /\ all_settled(p)
    /\ pushing' = FALSE
    /\ paused' = FALSE
    /\ resume_calls' = resume_calls + 1
    /\ calls' = <<"then", p.obj, "resume">>
                 \o (IF p.push_end THEN <<"push_end">> ELSE <<>>)
    /\ promises' = promises (-) SetToBag({p})
    /\ UNCHANGED <<ev_x, ev_y, location_key, active, events, current_x,
                   current_y, actual_action, pause_calls,
                   trying_to_push, trying_to_push_direction, push_timer,
                   inputVars, identityVars, controlVars, animationVars>>

\* Code outside the push coordinator takes event e out of the map's
\* registry, dropping the bucket it empties.
Unregister(e) ==
    /\ location_key[e] \in DOMAIN events
    /\ \E i \in 1 .. Len(events[location_key[e]]) :
           events[location_key[e]][i] = e
    /\ events' = registry_remove(events, location_key[e], e)
    /\ calls' = <<"unregister">>
    /\ UNCHANGED <<ev_x, ev_y, location_key, active, current_x, current_y,
                   pushing, actual_action, paused, pause_calls, resume_calls,
                   promises, trying_to_push, trying_to_push_direction,
                   push_timer, inputVars, identityVars, controlVars, animationVars>>

\* The value of TileEvent.id_incrementer++ (TileEvent.ts 55).
next_id_pre_increment(inc) == inc + 1
next_id(inc) == inc

\* The identity part of the constructor (TileEvent.ts 55, 78): the new
\* object takes the next id and registers itself under it.
New(t) ==
    /\ constructed < MaxConstructed
    /\ LET this == [serial |-> constructed + 1, type |-> t,
                    id |-> next_id(id_incrementer)]
       IN /\ TileEvent_events' =
                 [k \in (DOMAIN TileEvent_events) \cup {this.id} |->
                     IF k = this.id THEN this ELSE TileEvent_events[k]]
          /\ created' = Append(created, this)
    /\ id_incrementer' = id_incrementer + 1
    /\ constructed' = constructed + 1
    /\ calls' = <<"constructor">>
    /\ UNCHANGED <<pushVars, active, controlVars, animationVars>>

\* static reset()
Reset ==
    /\ id_incrementer' = 0
    /\ TileEvent_events' = [k \in {} |-> k]
    /\ created' = <<>>
    /\ calls' = <<"reset">>
    /\ UNCHANGED <<pushVars, active, constructed, controlVars, animationVars>>

\* static get_event(id)
get_event(id) ==
    IF id \in DOMAIN TileEvent_events THEN TileEvent_events[id]
    ELSE "undefined"

\* Calls of the activation methods of event e from outside the push.
ActivateAt(e, d) ==
    /\ active' = activate_at(active, e, d)
    /\ calls' = <<"activate_at", ToString(e), d>>
    /\ UNCHANGED <<pushVars, identityVars, controlVars, animationVars>>

DeactivateAt(e, d) ==
    /\ active' = deactivate_at(active, e, d)
    /\ calls' = <<"deactivate_at", ToString(e), d>>
    /\ UNCHANGED <<pushVars, identityVars, controlVars, animationVars>>

Activate(e) ==
    /\ active' = activate(active, e)
    /\ calls' = <<"activate", ToString(e)>>
    /\ UNCHANGED <<pushVars, identityVars, controlVars, animationVars>>

Deactivate(e) ==
    /\ active' = deactivate(active, e)
    /\ calls' = <<"deactivate", ToString(e)>>
    /\ UNCHANGED <<pushVars, identityVars, controlVars, animationVars>>

\* Where the hero stands when it runs into object "A" heading in direction d.
side_position(d) ==
    LET s == sprite("A")
    IN CASE d = "down" -> [x |-> s.x, y |-> s.y - 1]
         [] d = "up" -> [x |-> s.x, y |-> s.y + 1]
         [] d = "left" -> [x |-> s.x + 1, y |-> s.y]
         [] d = "right" -> [x |-> s.x - 1, y |-> s.y]
         [] OTHER -> [x |-> s.x + 1, y |-> s.y + 1]

\* The hero runs into object "A" heading in direction d: the collision
\* handler records the push request and arms the push timer.
Collide(d) ==
    /\ hero' = side_position(d)
    /\ trying_to_push' = TRUE
    /\ trying_to_push_direction' = d
    /\ push_timer' = "timer"
    /\ actual_direction' = d
    /\ calls' = <<>>
    /\ UNCHANGED <<casting_psynergy, jumping, identityVars, controlVars, animationVars>>
    /\ UNCHANGED <<ev_x, ev_y, location_key, active, events, current_x,
                   current_y, pushing, actual_action, paused, pause_calls,
                   resume_calls, promises>>

-----------------------------------------------------------------------------
(* ControlManager (ControlManager.ts).  A signal binding is the index of    *)
(* its record in listeners; current_set_key is <<>> for null and <<k>> for  *)
(* the key k.                                                               *)

MaxListeners == 4
MaxTimerEvents == 2

Buttons == {"A", "B", "UP", "DOWN"}

\* XGamepad.get_opposite_button, "" for none.
get_opposite_button(b) ==
    CASE b = "UP" -> "DOWN"
      [] b = "DOWN" -> "UP"
      [] OTHER -> ""

StoppedTimer == [running |-> FALSE, events |-> <<>>]

\* The fields of the manager and of the gamepad, and what the handlers of
\* the step have called so far.
Manager ==
    [disabled |-> disabled,
     current_signal_bindings |-> current_signal_bindings,
     current_set_key |-> current_set_key,
     signal_bindings |-> signal_bindings,
     loop_start_timer |-> loop_start_timer,
     loop_repeat_timer |-> loop_repeat_timer,
     listeners |-> listeners,
     is_down |-> is_down,
     log |-> <<>>]

\* stop_timers()
stop_timers(m) ==
    [m EXCEPT !.loop_start_timer = StoppedTimer,
              !.loop_repeat_timer = StoppedTimer]

\* bind.detach() for every binding of the sequence binds.
detach(ls, binds) ==
    [i \in DOMAIN ls |->
        IF \E n \in 1 .. Len(binds) : binds[n] = i
        THEN [ls[i] EXCEPT !.attached = FALSE]
        ELSE ls[i]]

\* detach_bindings(key)
detach_bindings(m, key) ==
    IF key \in DOMAIN m.signal_bindings
    THEN [m EXCEPT !.listeners = detach(@, m.signal_bindings[key]),
                   !.signal_bindings =
                       [k \in (DOMAIN m.signal_bindings) \ {key} |->
                           m.signal_bindings[k]]]
    ELSE m

\* The truth value JavaScript gives current_set_key.
truthy(set_key) == set_key # <<>> /\ set_key[1] # 0

\* reset(detach = true)
reset(m, detach_listeners) ==
    LET stopped == stop_timers(m)
        cleared == [stopped EXCEPT
                       !.listeners = detach(@, stopped.current_signal_bindings),
                       !.current_signal_bindings = <<>>]
        detached == IF truthy(cleared.current_set_key)
                    THEN detach_bindings(cleared, cleared.current_set_key[1])
                    ELSE cleared
    IN IF detach_listeners
       THEN [detached EXCEPT !.current_set_key = <<>>]
       ELSE stopped

\* make_key(): the first index with no entry (every entry is an array, and
\* an array is truthy), which receives an empty array.
free_key(sb) ==
    CHOOSE i \in 0 .. Cardinality(DOMAIN sb) :
        /\ i \notin DOMAIN sb
        /\ \A j \in 0 .. (i - 1) : j \in DOMAIN sb

make_key(m) ==
    [m EXCEPT !.signal_bindings = @ @@ (free_key(@) :> <<>>)]

\* A control: button is the button, or the last button of the combination
\* buttons; loop_time, sfx_down and sfx_up say whether the value is set.
Control(button, buttons, on_down, on_up, reset_controls, sfx_down, sfx_up) ==
    [button |-> button, buttons |-> buttons, on_down |-> on_down,
     on_up |-> on_up, reset_controls |-> reset_controls,
     loop_time |-> FALSE, sfx_down |-> sfx_down, sfx_up |-> sfx_up]

\* apply_control_params(controls, params) for params.loop_config.vertical:
\* the first control of UP and the first control of DOWN get a loop time.
apply_control_params(controls, vertical) ==
    [n \in DOMAIN controls |->
        IF /\ vertical
           /\ controls[n].button \in {"UP", "DOWN"}
           /\ \A j \in 1 .. (n - 1) : controls[j].button # controls[n].button
        THEN [controls[n] EXCEPT !.loop_time = TRUE]
        ELSE controls[n]]

\* The bindings enable_controls adds for one control, in order
\* (ControlManager.ts 182-236).
control_listeners(control, persist) ==
    LET binding(signal, kind) ==
            [button |-> control.button, signal |-> signal, kind |-> kind,
             buttons |-> control.buttons,
             reset_controls |-> control.reset_controls,
             sfx |-> (IF signal = "on_up" /\ kind = "on_up"
                      THEN control.sfx_up ELSE control.sfx_down),
             persist |-> persist, attached |-> TRUE]
    IN (IF control.on_up THEN <<binding("on_up", "on_up")>> ELSE <<>>)
       \o (IF control.on_down
           THEN IF control.loop_time
                THEN <<binding("on_down", "loop_down"),
                       binding("on_up", "loop_up")>>
                ELSE <<binding("on_down", "on_down")>>
           ELSE <<>>)

RECURSIVE all_listeners(_, _, _)
all_listeners(controls, n, persist) ==
    IF n > Len(controls) THEN <<>>
    ELSE control_listeners(controls[n], persist)
             \o all_listeners(controls, n + 1, persist)

\* enable_controls(controls, persist); the key it returns is logged.
enable_controls(m, controls, persist) ==
    LET added == all_listeners(controls, 1, persist)
        bindings == [n \in 1 .. Len(added) |-> Len(m.listeners) + n]
        registered == [m EXCEPT
                          !.listeners = @ \o added,
                          !.current_signal_bindings =
                              IF persist THEN @ ELSE @ \o bindings]
        keyed == make_key(reset(registered, FALSE))
        key == free_key(registered.signal_bindings)
    IN [keyed EXCEPT !.signal_bindings[key] = bindings,
                     !.current_set_key = IF persist THEN @ ELSE <<key>>,
                     !.log = @ \o <<"key", ToString(key)>>]

\* add_controls(controls, params); params.loop_config is {vertical}.
add_controls(m, controls, vertical, persist, no_initial_reset) ==
    LET initial == IF Len(m.current_signal_bindings) # 0 /\ ~no_initial_reset
                   THEN reset(m, TRUE)
                   ELSE m
    IN enable_controls(initial, apply_control_params(controls, vertical),
                       persist)

\* The controls add_simple_controls builds (ControlManager.ts 96-113).
simple_controls(reset_on_press, confirm_only, sfx) ==
    <<Control("A", <<>>, TRUE, FALSE, reset_on_press, sfx, FALSE)>>
    \o (IF confirm_only THEN <<>>
        ELSE <<Control("B", <<>>, TRUE, FALSE, reset_on_press, sfx, FALSE)>>)

\* start_loop_timers(callback, loop_time, sfx) of the control of binding i.
start_loop_timers(m, i) ==
    [m EXCEPT !.log = @ \o (IF m.listeners[i].sfx THEN <<"sfx">> ELSE <<>>)
                        \o <<"on_down">>,
              !.loop_start_timer =
                  [running |-> TRUE, events |-> Append(@.events, i)]]

\* The listener of binding i (ControlManager.ts 183-188, 200-213, 214-220,
\* 224-233).
listener(m, i) ==
    LET l == m.listeners[i]
        opposite_button == get_opposite_button(l.button)
    IN IF m.disabled THEN m
       ELSE CASE l.kind = "on_up" ->
                   [m EXCEPT !.log = @ \o (IF l.sfx THEN <<"sfx">> ELSE <<>>)
                                       \o <<"on_up">>]
              [] l.kind = "loop_down" ->
                   start_loop_timers(
                       IF opposite_button # "" /\ m.is_down[opposite_button]
                       THEN stop_timers(
                                [m EXCEPT !.is_down[opposite_button] = FALSE])
                       ELSE m,
                       i)
              [] l.kind = "loop_up" -> stop_timers(m)
              [] OTHER ->
                   IF \E n \in 1 .. Len(l.buttons) : ~m.is_down[l.buttons[n]]
                   THEN m
                   ELSE LET r == IF l.reset_controls THEN reset(m, TRUE) ELSE m
                        IN [r EXCEPT !.log = @ \o (IF l.sfx THEN <<"sfx">>
                                                   ELSE <<>>)
                                             \o <<"on_down">>]

\* Signal.dispatch of the signal of button b: the bindings added to it run
\* in the order of their addition, those detached by then apart.
RECURSIVE dispatch(_, _, _, _)
dispatch(m, b, signal, i) ==
    IF i > Len(m.listeners) THEN m
    ELSE dispatch(IF /\ m.listeners[i].button = b
                     /\ m.listeners[i].signal = signal
                     /\ m.listeners[i].attached
                  THEN listener(m, i)
                  ELSE m,
                  b, signal, i + 1)

\* The manager and the gamepad become m.
Becomes(m) ==
    /\ disabled' = m.disabled
    /\ current_signal_bindings' = m.current_signal_bindings
    /\ current_set_key' = m.current_set_key
    /\ signal_bindings' = m.signal_bindings
    /\ loop_start_timer' = m.loop_start_timer
    /\ loop_repeat_timer' = m.loop_repeat_timer
    /\ listeners' = m.listeners
    /\ is_down' = m.is_down
    /\ Len(m.listeners) <= MaxListeners
    /\ Len(m.loop_start_timer.events) <= MaxTimerEvents
    /\ Len(m.loop_repeat_timer.events) <= MaxTimerEvents
    /\ UNCHANGED <<pushVars, active, identityVars, animationVars>>

\* The lists of controls callers pass to add_controls.
ControlLists ==
    {<<Control("UP", <<>>, TRUE, FALSE, FALSE, TRUE, FALSE),
       Control("DOWN", <<>>, TRUE, FALSE, FALSE, FALSE, FALSE)>>,
     <<Control("A", <<>>, TRUE, TRUE, TRUE, FALSE, TRUE)>>,
     <<Control("A", <<"B", "A">>, TRUE, FALSE, FALSE, FALSE, FALSE)>>}

AddControls(controls, vertical, persist, no_initial_reset) ==
    LET m == add_controls(Manager, controls, vertical, persist,
                          no_initial_reset)
    IN /\ Becomes(m)
       /\ calls' = <<"add_controls">> \o m.log

\* add_simple_controls(callback, {reset_on_press, confirm_only, persist,
\* no_initial_reset}, sfx)
AddSimpleControls(reset_on_press, confirm_only, persist, no_initial_reset, sfx) ==
    LET controls == simple_controls(reset_on_press, confirm_only, sfx)
        m == add_controls(Manager, controls, FALSE, persist, no_initial_reset)
    IN /\ Becomes(m)
       /\ calls' = <<"add_simple_controls">> \o m.log

\* reset() called by the owner of the controls.
ControlReset ==
    LET m == reset(Manager, TRUE)
    IN /\ Becomes(m)
       /\ calls' = <<"reset">>

DetachBindings(key) ==
    LET m == detach_bindings(Manager, key)
    IN /\ Becomes(m)
       /\ calls' = <<"detach_bindings", ToString(key)>>

\* The player presses button b: XGamepad sets is_down and dispatches on_down.
Press(b) ==
    /\ ~is_down[b]
    /\ LET m == dispatch([Manager EXCEPT !.is_down[b] = TRUE], b, "on_down", 1)
       IN /\ Becomes(m)
          /\ calls' = <<"press", b>> \o m.log

\* The player releases button b: XGamepad sets is_up and dispatches on_up.
Release(b) ==
    /\ is_down[b]
    /\ LET m == dispatch([Manager EXCEPT !.is_down[b] = FALSE], b, "on_up", 1)
       IN /\ Becomes(m)
          /\ calls' = <<"release", b>> \o m.log

\* Code outside the manager sets its disabled field.
SetDisabled(v) ==
    /\ disabled # v
    /\ Becomes([Manager EXCEPT !.disabled = v])
    /\ calls' = <<"disabled">>

\* The event loop_start_timer holds at position n comes due
\* (ControlManager.ts 257-263): the repeating event of binding i starts.
LoopStartTimerFires(n) ==
    /\ loop_start_timer.running
    /\ n \in 1 .. Len(loop_start_timer.events)
    /\ Becomes([Manager EXCEPT
                   !.loop_start_timer.events =
                       SubSeq(@, 1, n - 1) \o SubSeq(@, n + 1, Len(@)),
                   !.loop_repeat_timer =
                       [running |-> TRUE,
                        events |-> Append(@.events,
                                          loop_start_timer.events[n])]])
    /\ calls' = <<"loop_start_timer">>

\* The repeating event loop_repeat_timer holds at position n comes due
\* (ControlManager.ts 258-261).
LoopRepeatTimerFires(n) ==
    /\ loop_repeat_timer.running
    /\ n \in 1 .. Len(loop_repeat_timer.events)
    /\ Becomes(Manager)
    /\ calls' = <<"loop_repeat_timer">>
                 \o (IF listeners[loop_repeat_timer.events[n]].sfx
                     THEN <<"sfx">> ELSE <<>>)
                 \o <<"on_down">>

\* The manager as constructed (ControlManager.ts 71-84), no button held.
InitControl ==
    /\ disabled = FALSE
    /\ current_signal_bindings = <<>>
    /\ current_set_key = <<>>
    /\ signal_bindings = [k \in {} |-> <<>>]
    /\ loop_start_timer = StoppedTimer
    /\ loop_repeat_timer = StoppedTimer
    /\ listeners = <<>>
    /\ is_down = [b \in Buttons |-> FALSE]

\* The animation manager as constructed (TileEvent.ts 154-160).
InitAnimation ==
    /\ animations = {}
    /\ not_available = {}
    /\ render_function = <<>>
    /\ loading = EmptyBag
    /\ playing = EmptyBag

-----------------------------------------------------------------------------
(* BattleAnimationManager (TileEvent.ts 147-286).  animations is the set of *)
(* keys of the animations object; render_function is <<>> for null and     *)
(* <<key>> for the render method of the animation loaded under key.         *)

MaxLoads == 2
MaxPlays == 2

BattleAnimKeys == {"fire", "ice", "no_animation"}
CasterKeys == {"hero"}

\* battle_anim_key + "/" + caster_battle_key
animation_key(battle_anim_key, caster_battle_key) ==
    battle_anim_key \o "/" \o caster_battle_key

\* animation_available(battle_anim_key, caster_battle_key)
animation_available(anims, battle_anim_key, caster_battle_key) ==
    IF animation_key(battle_anim_key, caster_battle_key) \in anims
    THEN "AVAILABLE"
    ELSE IF battle_anim_key = "no_animation" THEN "NO_ANIMATION"
    ELSE "NOT_AVAILABLE"

\* load_animation up to its await (TileEvent.ts 162-197).
LoadAnimation(battle_anim_key, caster_battle_key) ==
    /\ IF battle_anim_key \in not_available \/ battle_anim_key = "no_animation"
       THEN UNCHANGED loading
       ELSE /\ BagCardinality(loading) < MaxLoads
            /\ loading' = loading (+) SetToBag({
                   [battle_anim_key |-> battle_anim_key,
                    caster_battle_key |-> caster_battle_key]})
    /\ calls' = <<"load_animation", battle_anim_key>>
    /\ UNCHANGED <<animations, not_available, render_function, playing>>
    /\ UNCHANGED <<pushVars, active, identityVars, controlVars>>

\* The loader has finished the files of load l: load_animation goes on
\* after its await (TileEvent.ts 198-230).
LoadComplete(l, all_succeed) ==
    /\ l \in BagToSet(loading)
    /\ loading' = loading (-) SetToBag({l})
    /\ IF all_succeed
       THEN /\ animations' = animations \cup
                   {animation_key(l.battle_anim_key, l.caster_battle_key)}
            /\ UNCHANGED not_available
       ELSE /\ not_available' = not_available \cup {l.battle_anim_key}
            /\ UNCHANGED animations
    /\ calls' = <<"load_complete", l.battle_anim_key>>
    /\ UNCHANGED <<render_function, playing>>
    /\ UNCHANGED <<pushVars, active, identityVars, controlVars>>

\* play up to its await (TileEvent.ts 240-268).
Play(battle_anim_key, caster_battle_key) ==
    LET key == animation_key(battle_anim_key, caster_battle_key)
    IN /\ IF key \notin animations
          THEN /\ UNCHANGED <<render_function, playing>>
               /\ calls' = <<"play", key>>
          ELSE /\ BagCardinality(playing) < MaxPlays
               /\ render_function' = <<key>>
               /\ playing' = playing (+) SetToBag({key})
               /\ calls' = <<"play", key, "initialize", "play">>
       /\ UNCHANGED <<animations, not_available, loading>>
       /\ UNCHANGED <<pushVars, active, identityVars, controlVars>>

\* The animation of a play of key signals its end: play goes on after its
\* await (TileEvent.ts 269-270).
PlayComplete(key) ==
    /\ key \in BagToSet(playing)
    /\ playing' = playing (-) SetToBag({key})
    /\ render_function' = <<>>
    /\ animations' = animations \ {key}
    /\ calls' = <<"play_complete", key>>
    /\ UNCHANGED <<not_available, loading>>
    /\ UNCHANGED <<pushVars, active, identityVars, controlVars>>

\* render()
Render ==
    /\ calls' = <<"render">> \o render_function
    /\ UNCHANGED animationVars
    /\ UNCHANGED <<pushVars, active, identityVars, controlVars>>

-----------------------------------------------------------------------------
(* Specifications.                                                          *)

InitWorld ==
    /\ ev_x = [e \in EventIds |-> EventTable[e + 1].x]
    /\ ev_y = [e \in EventIds |-> EventTable[e + 1].y]
    /\ location_key = [e \in EventIds |->
           get_location_key(EventTable[e + 1].x, EventTable[e + 1].y)]
    /\ active = [e \in EventIds |-> new_active(e, TRUE)]
    /\ events = load_events(EmptyRegistry, 0)
    /\ current_x = [o \in ObjectIds |-> IF o = "A" THEN 0 ELSE 0]
    /\ current_y = [o \in ObjectIds |-> IF o = "A" THEN 0 ELSE 2]
    /\ pushing = FALSE
    /\ actual_action = "idle"
    /\ paused = FALSE
    /\ pause_calls = 0
    /\ resume_calls = 0
    /\ promises = EmptyBag
    /\ calls = <<>>
    /\ id_incrementer = Len(EventTable)
    /\ TileEvent_events = [e \in EventIds |->
           [serial |-> e + 1, type |-> type(e), id |-> e]]
    /\ constructed = Len(EventTable)
    /\ created = [i \in 1 .. Len(EventTable) |->
           [serial |-> i, type |-> type(i - 1), id |-> i - 1]]
    /\ InitControl
    /\ InitAnimation

\* The map as loaded, nobody pushing.
Init ==
    /\ InitWorld
    /\ hero = [x |-> -1, y |-> 0]
    /\ trying_to_push = FALSE
    /\ trying_to_push_direction = "right"
    /\ push_timer = "null"
    /\ actual_direction = "right"
    /\ casting_psynergy = FALSE
    /\ jumping = FALSE

\* The push protocol: requests, pushes, transitions and their completion.
ProtocolDirections == {"right", "up_left"}

Next ==
    \/ \E d \in ProtocolDirections : Collide(d)
    \/ \E o \in ObjectIds : NormalPush(o)
    \/ \E o \in ObjectIds, before_move \in BOOLEAN, push_end \in BOOLEAN :
           TargetOnlyPush(o, before_move, push_end)
    \/ \E p \in InFlight, b \in {"object", "shadow", "hero"} :
           TransitionComplete(p, b)
    \/ \E p \in InFlight : AllTransitionsDone(p)

Spec == Init /\ [][Next]_vars

\* Pushes towards the right, every issued transition eventually signalling
\* completion and every fulfilled Promise.all running its continuation.
NextLive ==
    \/ Collide("right")
    \/ \E o \in ObjectIds : NormalPush(o)
    \/ \E o \in ObjectIds, push_end \in BOOLEAN :
           TargetOnlyPush(o, FALSE, push_end)
    \/ \E p \in InFlight, b \in {"object", "shadow", "hero"} :
           TransitionComplete(p, b)
    \/ \E p \in InFlight : AllTransitionsDone(p)

SpecLive ==
    /\ Init
    /\ [][NextLive]_vars
    /\ WF_vars(\E p \in InFlight, b \in {"object", "shadow", "hero"} :
                  TransitionComplete(p, b))
    /\ WF_vars(\E p \in InFlight : AllTransitionsDone(p))

\* Relocation: pushes in every direction, their transitions still running.
NextRelocation ==
    \/ \E d \in Directions : Collide(d)
    \/ \E o \in ObjectIds : NormalPush(o)
    \/ \E o \in ObjectIds, before_move \in BOOLEAN, push_end \in BOOLEAN :
           TargetOnlyPush(o, before_move, push_end)

SpecRelocation == Init /\ [][NextRelocation]_vars

\* The entry of a normal push: the timer of a push request fires in any
\* state of the actor.
HeroPositions ==
    {[x |-> hx, y |-> hy] : hx \in {-1, 0, 1, 10}, hy \in {-15, -1, 0, 1}}

InitEntry ==
    /\ InitWorld
    /\ hero \in HeroPositions
    /\ trying_to_push \in BOOLEAN
    /\ trying_to_push_direction \in Directions
    /\ push_timer = "timer"
    /\ actual_direction \in Directions
    /\ casting_psynergy \in BOOLEAN
    /\ jumping \in BOOLEAN

NextEntry ==
    \/ \E o \in ObjectIds : NormalPush(o)
    \/ \E p \in InFlight, b \in {"object", "shadow", "hero"} :
           TransitionComplete(p, b)
    \/ \E p \in InFlight : AllTransitionsDone(p)

SpecEntry == InitEntry /\ [][NextEntry]_vars

\* Pushes of objects whose events may have been taken out of the registry.
NextUnregistered ==
    \/ \E e \in {0, 1, 2} : Unregister(e)
    \/ Collide("right")
    \/ \E o \in ObjectIds : NormalPush(o)
    \/ \E o \in ObjectIds, before_move \in BOOLEAN, push_end \in BOOLEAN :
           TargetOnlyPush(o, before_move, push_end)
    \/ \E p \in InFlight, b \in {"object", "shadow", "hero"} :
           TransitionComplete(p, b)
    \/ \E p \in InFlight : AllTransitionsDone(p)

SpecUnregistered == Init /\ [][NextUnregistered]_vars

\* Maps whose events 0 and 2 were constructed on tiles with one- and
\* two-digit coordinates of either sign, and scripted pushes on them.
KeyCoords == {-11, -1, 0, 1, 11}

InitKey ==
    /\ \E x0 \in KeyCoords, y0 \in KeyCoords, x2 \in KeyCoords, y2 \in KeyCoords :
          /\ ev_x = [e \in EventIds |->
                 IF e = 0 THEN x0 ELSE IF e = 2 THEN x2 ELSE EventTable[e + 1].x]
          /\ ev_y = [e \in EventIds |->
                 IF e = 0 THEN y0 ELSE IF e = 2 THEN y2 ELSE EventTable[e + 1].y]
    /\ location_key = [e \in EventIds |-> get_location_key(ev_x[e], ev_y[e])]
    /\ events = register_all(EmptyRegistry, 0, location_key)
    /\ active = [e \in EventIds |-> new_active(e, TRUE)]
    /\ current_x = [o \in ObjectIds |-> ev_x[get_events(o)[1]]]
    /\ current_y = [o \in ObjectIds |-> ev_y[get_events(o)[1]]]
    /\ pushing = FALSE
    /\ actual_action = "idle"
    /\ paused = FALSE
    /\ pause_calls = 0
    /\ resume_calls = 0
    /\ promises = EmptyBag
    /\ calls = <<>>
    /\ id_incrementer = Len(EventTable)
    /\ TileEvent_events = [e \in EventIds |->
           [serial |-> e + 1, type |-> type(e), id |-> e]]
    /\ constructed = Len(EventTable)
    /\ created = [i \in 1 .. Len(EventTable) |->
           [serial |-> i, type |-> type(i - 1), id |-> i - 1]]
    /\ InitControl
    /\ InitAnimation
    /\ hero = [x |-> -1, y |-> 0]
    /\ trying_to_push = FALSE
    /\ trying_to_push_direction = "right"
    /\ push_timer = "null"
    /\ actual_direction = "right"
    /\ casting_psynergy = FALSE
    /\ jumping = FALSE

NextKey == \E o \in ObjectIds : TargetOnlyPush(o, FALSE, FALSE)

SpecKey == InitKey /\ [][NextKey]_vars

\* Construction of further tile events and resets of the statics.
EventTypes == {"jump", "step", "climb"}

NextIdentity ==
    \/ \E t \in EventTypes : New(t)
    \/ Reset

SpecIdentity == Init /\ [][NextIdentity]_vars

\* The activation flags of two events, one listening to all four cardinal
\* directions and one to left and right only, under any sequence of calls.
FlagEvents == {0, 3}

NextFlags ==
    \/ \E e \in FlagEvents, d \in Directions : ActivateAt(e, d)
    \/ \E e \in FlagEvents, d \in Directions : DeactivateAt(e, d)
    \/ \E e \in FlagEvents : Activate(e)
    \/ \E e \in FlagEvents : Deactivate(e)

SpecFlags == Init /\ [][NextFlags]_vars

\* A scripted trigger: target-only pushes in any state of the actor, the
\* hero standing on any side of "A".
InitTargetOnly ==
    /\ InitWorld
    /\ hero \in {side_position(d) : d \in Cardinals}
    /\ trying_to_push \in BOOLEAN
    /\ trying_to_push_direction \in Directions
    /\ push_timer = "null"
    /\ actual_direction \in {"up", "right"}
    /\ casting_psynergy \in BOOLEAN
    /\ jumping \in BOOLEAN

NextTargetOnly ==
    \E o \in ObjectIds, before_move \in BOOLEAN, push_end \in BOOLEAN :
        TargetOnlyPush(o, before_move, push_end)

SpecTargetOnly == InitTargetOnly /\ [][NextTargetOnly]_vars

\* Binding sets: confirm controls, persistent or not, are added, reset and
\* detached while the confirm button is pressed and released.
ControlKeys == 0 .. 2

NextBindings ==
    \/ \E reset_on_press \in BOOLEAN, persist \in BOOLEAN,
          no_initial_reset \in BOOLEAN :
           AddSimpleControls(reset_on_press, TRUE, persist, no_initial_reset,
                             FALSE)
    \/ ControlReset
    \/ \E key \in ControlKeys : DetachBindings(key)
    \/ Press("A")
    \/ Release("A")

SpecBindings == Init /\ [][NextBindings]_vars

\* Held buttons: controls of the vertical buttons, looped or not, and of
\* the confirm button are added; buttons are pressed and released, the
\* manager is disabled and enabled, the loop timers run.
NextLoop ==
    \/ \E controls \in ControlLists, vertical \in BOOLEAN :
           AddControls(controls, vertical, FALSE, FALSE)
    \/ \E b \in Buttons : Press(b)
    \/ \E b \in Buttons : Release(b)
    \/ \E v \in BOOLEAN : SetDisabled(v)
    \/ \E n \in 1 .. MaxTimerEvents : LoopStartTimerFires(n)
    \/ \E n \in 1 .. MaxTimerEvents : LoopRepeatTimerFires(n)

SpecLoop == Init /\ [][NextLoop]_vars

\* Battle animations: loads and plays overlap freely.
AnimationKeys ==
    {animation_key(a, c) : a \in BattleAnimKeys, c \in CasterKeys}

NextAnimation ==
    \/ \E a \in BattleAnimKeys, c \in CasterKeys : LoadAnimation(a, c)
    \/ \E l \in BagToSet(loading), all_succeed \in BOOLEAN :
           LoadComplete(l, all_succeed)
    \/ \E a \in BattleAnimKeys, c \in CasterKeys : Play(a, c)
    \/ \E key \in AnimationKeys : PlayComplete(key)
    \/ Render

SpecAnimation == Init /\ [][NextAnimation]_vars

-----------------------------------------------------------------------------
(* Properties.                                                              *)

\* Number of occurrences of x in sequence s.
Count(s, x) == Cardinality({i \in 1 .. Len(s) : s[i] = x})

\* Is event e in the bucket registry reg keeps under key k?
InBucket(reg, k, e) == k \in DOMAIN reg /\ Count(reg[k], e) >= 1

\* Did the last handler step make call c?
Called(log, c) == Count(log, c) >= 1

\* C1: after any sequence of pushes, every key present in the registry maps
\* to a bucket of length >= 1: a bucket the removal step empties is deleted,
\* never left behind.
C1_NoEmptyBucket == \A k \in DOMAIN events : Len(events[k]) >= 1

\* Object "B" was pushed off the tile where its event was alone: the key of
\* that tile is gone from the registry.
C1_Witness ==
    /\ pause_calls >= 1
    /\ location_key[2] # "0_2"
    /\ "0_2" \notin DOMAIN events

\* C2: in every state between handler runs (transitions pending or not,
\* pushes overlapping or not) every event of the map occurs exactly once in
\* the registry, in the bucket keyed by its current location_key.
C2_EachEventOnceUnderItsKey ==
    \A e \in EventIds :
        /\ location_key[e] \in DOMAIN events
        /\ Count(events[location_key[e]], e) = 1
        /\ \A k \in (DOMAIN events) \ {location_key[e]} :
               Count(events[k], e) = 0

\* Two pushes are in their transition window, and an event of "A" has been
\* moved into the bucket of the event of "B".
C2_Witness ==
    /\ BagCardinality(promises) = 2
    /\ location_key[0] = location_key[2]
    /\ Len(events[location_key[0]]) >= 2

\* C3: for every tile event, from construction on and after any sequence of
\* pushes, location_key equals get_location_key(x, y) of its current x, y.
C3_LocationKeyMatchesPosition ==
    \A e \in EventIds : location_key[e] = get_location_key(ev_x[e], ev_y[e])

\* Event 0 was pushed left and down, to a tile with a negative coordinate.
C3_Witness ==
    /\ ev_x[0] = -1
    /\ ev_y[0] = 1
    /\ location_key[0] = "-1_1"

\* The unit vector of a cardinal direction.
UnitVector(d) ==
    CASE d = "up" -> [dx |-> 0, dy |-> -1]
      [] d = "down" -> [dx |-> 0, dy |-> 1]
      [] d = "left" -> [dx |-> -1, dy |-> 0]
      [] d = "right" -> [dx |-> 1, dy |-> 0]

\* C4: a push of object o that proceeds in cardinal direction d moves every
\* event of get_events(o) from (x, y) to (x + dx, y + dy), into the bucket of
\* (x + dx, y + dy) and out of the bucket of (x, y).
C4_PushShiftsOwnedEvents ==
    [][\A o \in ObjectIds :
         (/\ pause_calls' = pause_calls + 1
          /\ Len(calls') >= 2
          /\ calls'[2] = o
          /\ trying_to_push_direction \in Cardinals)
         => \A i \in 1 .. Len(get_events(o)) :
              LET e == get_events(o)[i]
                  u == UnitVector(trying_to_push_direction)
                  x == ev_x[e]
                  y == ev_y[e]
              IN /\ ev_x'[e] = x + u.dx
                 /\ ev_y'[e] = y + u.dy
                 /\ InBucket(events', get_location_key(x + u.dx, y + u.dy), e)
                 /\ ~InBucket(events', get_location_key(x, y), e)]_vars

\* Object "A", whose two events stood on adjacent tiles, was pushed right
\* once: event 0 is on the tile event 1 left, event 1 one tile further.
C4_Witness ==
    /\ pause_calls = 1
    /\ ev_x[0] = 1 /\ ev_y[0] = 0
    /\ ev_x[1] = 2 /\ ev_y[1] = 0
    /\ InBucket(events, "1_0", 0) /\ ~InBucket(events, "0_0", 0)
    /\ InBucket(events, "2_0", 1) /\ ~InBucket(events, "1_0", 1)

\* C5: the resume() of a push is called only by the continuation that runs
\* once every transition of the push (1 body in target-only mode, 3
\* otherwise) has signalled completion; the completion of a transition that
\* leaves others of the push pending, in whatever order, does not resume
\* physics.
C5_ResumeAfterAllTransitions ==
    [][/\ Called(calls', "resume") =>
              \E p \in BagToSet(promises) :
                  /\ p.pending = {}
                  /\ promises' = promises (-) SetToBag({p})
       /\ BagCardinality(promises') = BagCardinality(promises) + 1 =>
              \E p \in BagToSet(promises') :
                  /\ promises' = promises (+) SetToBag({p})
                  /\ Cardinality(p.pending) = (IF p.target_only THEN 1 ELSE 3)
                  /\ Count(calls', "tween") = Cardinality(p.pending)
       /\ calls' = <<"onComplete">> =>
              /\ \E p \in BagToSet(promises), b \in {"object", "shadow", "hero"} :
                     /\ b \in p.pending
                     /\ promises' = (promises (-) SetToBag({p})) (+)
                            SetToBag({[p EXCEPT !.pending = @ \ {b}]})
              /\ resume_calls' = resume_calls
              /\ paused' = paused]_vars

\* Two of the three transitions of a normal push have completed: physics is
\* still paused and resume() has not been called.
C5_Witness ==
    /\ calls = <<"onComplete">>
    /\ resume_calls = 0
    /\ paused
    /\ \E p \in BagToSet(promises) :
           ~p.target_only /\ Cardinality(p.pending) = 1

\* C6: physics is paused whenever some push that proceeded, on any object,
\* still has a transition that has not completed.
C6_PausedWhileTransitionsPending ==
    (\E p \in BagToSet(promises) : p.pending # {}) => paused

\* Pushes of "A" and of "B" overlapped; the push of "A" has completed and
\* resumed physics while the transition of "B" is still running.
C6_Witness ==
    /\ pause_calls = 2
    /\ resume_calls = 1
    /\ current_x["A"] = 1
    /\ ~paused
    /\ \E p \in BagToSet(promises) : p.obj = "B" /\ p.pending # {}

\* The five conditions of the entry of a normal push.
EntryConditionsHold ==
    /\ trying_to_push
    /\ trying_to_push_direction \in {"up", "down", "left", "right"}
    /\ trying_to_push_direction = actual_direction
    /\ casting_psynergy = FALSE
    /\ jumping = FALSE

\* The quadrants whose closed region holds the hero, for the two limits.
QuadrantCandidates(hx, hy, sx, sy) ==
    LET positive_limit == hx + (-sy - sx)
        negative_limit == -hx + (-sy + sx)
        a == -hy
    IN {q \in {"down", "left", "up", "right"} :
          \/ q = "down" /\ a >= positive_limit /\ a >= negative_limit
          \/ q = "left" /\ a <= positive_limit /\ a >= negative_limit
          \/ q = "up" /\ a <= positive_limit /\ a <= negative_limit
          \/ q = "right" /\ a >= positive_limit /\ a <= negative_limit}

Priority(q) ==
    CASE q = "down" -> 1 [] q = "left" -> 2 [] q = "up" -> 3 [] q = "right" -> 4

\* The candidate of highest priority: down, then left, then up, then right.
ClassifiedQuadrant(o) ==
    LET c == QuadrantCandidates(hero.x, hero.y, sprite(o).x, sprite(o).y)
    IN IF c = {} THEN "undefined"
       ELSE CHOOSE q \in c : \A r \in c : Priority(q) <= Priority(r)

\* A normal push of object o is rejected in the current state.
Rejected(o) ==
    ~EntryConditionsHold \/ ClassifiedQuadrant(o) # trying_to_push_direction

\* C7: a push that proceeds calls pause() exactly once and, once all its
\* transitions have completed, resume() exactly once; a push rejected by the
\* entry condition or by direction validation calls neither; the number of
\* resume() calls never exceeds the number of pause() calls.
C7_PauseResumeOncePerPush ==
    /\ [](/\ resume_calls <= pause_calls
          /\ pause_calls = resume_calls + BagCardinality(promises))
    /\ [][/\ BagCardinality(promises') = BagCardinality(promises) + 1 =>
                 /\ Count(calls', "pause") = 1
                 /\ Count(calls', "resume") = 0
                 /\ pause_calls' = pause_calls + 1
                 /\ resume_calls' = resume_calls
          /\ BagCardinality(promises') = BagCardinality(promises) - 1 =>
                 /\ Count(calls', "resume") = 1
                 /\ Count(calls', "pause") = 0
                 /\ resume_calls' = resume_calls + 1
                 /\ pause_calls' = pause_calls
          /\ \A o \in ObjectIds :
                 (/\ Len(calls') >= 2
                  /\ calls'[1] = "normal_push"
                  /\ calls'[2] = o
                  /\ Rejected(o))
                 => /\ Count(calls', "pause") = 0
                    /\ Count(calls', "resume") = 0
                    /\ pause_calls' = pause_calls
                    /\ resume_calls' = resume_calls]_vars

\* Two pushes proceeded, one has completed and resumed, and a normal push of
\* "B" has just been rejected by direction validation.
C7_Witness ==
    /\ pause_calls = 2
    /\ resume_calls = 1
    /\ calls = <<"normal_push", "B", "fire_push_movement">>

\* C8: normal_push invokes the push movement only when the five entry
\* conditions hold, and trying_to_push is false when normal_push returns,
\* whether the push proceeded or not.
C8_NormalPushEntry ==
    [][(Len(calls') >= 1 /\ calls'[1] = "normal_push") =>
           /\ trying_to_push' = FALSE
           /\ Called(calls', "fire_push_movement") => EntryConditionsHold]_vars

\* A normal push was let through, proceeded, and cleared the request.
C8_Witness ==
    /\ Len(calls) >= 1 /\ calls[1] = "normal_push"
    /\ Called(calls, "fire_push_movement")
    /\ Called(calls, "pause")
    /\ trying_to_push = FALSE
    /\ push_timer = "null"

\* C9: a rejected normal push leaves the registry, every event's x, y,
\* location_key and activation flags, the objects' current_x / current_y,
\* the physics state and data.pushing unchanged, issues no transition and
\* calls neither hook.
C9_RejectedPushChangesNothing ==
    [][\A o \in ObjectIds :
         (/\ Len(calls') >= 2
          /\ calls'[1] = "normal_push"
          /\ calls'[2] = o
          /\ Rejected(o))
         => /\ UNCHANGED <<events, ev_x, ev_y, location_key, active,
                           current_x, current_y, paused, pushing, promises>>
            /\ ~Called(calls', "tween")
            /\ ~Called(calls', "before_move")
            /\ ~Called(calls', "push_end")]_vars

\* A normal push of "A" requested by a hero who is casting was rejected at
\* the entry, every other entry condition holding.
C9_Witness ==
    /\ calls = <<"normal_push", "A">>
    /\ casting_psynergy
    /\ ~jumping
    /\ trying_to_push_direction \in Cardinals
    /\ trying_to_push_direction = actual_direction
    /\ pause_calls = 0

\* C10: the quadrant classification yields exactly one of down, left, up,
\* right for every hero and sprite position, a hero on a limit being
\* classified in the priority order down, left, up; a normal push that passed
\* the entry proceeds iff the quadrant equals trying_to_push_direction; and
\* positive_limit = 10, negative_limit = -10, hero.y = -15 classifies as down.
C10_QuadrantClassification ==
    /\ [](\A o \in ObjectIds :
            LET q == expected_position(hero.x, hero.y, sprite(o).x, sprite(o).y)
            IN /\ q \in {"down", "left", "up", "right"}
               /\ q = ClassifiedQuadrant(o))
    /\ [](expected_position(10, -15, 0, 0) = "down")
    /\ [][\A o \in ObjectIds :
            (/\ Len(calls') >= 3
             /\ calls'[1] = "normal_push"
             /\ calls'[2] = o
             /\ calls'[3] = "fire_push_movement")
            => (Called(calls', "pause")
                  <=> ClassifiedQuadrant(o) = trying_to_push_direction)]_vars

\* The hero stands on both limits of "A" at once and pushes it down: the tie
\* is classified as down and the push proceeds.
C10_Witness ==
    /\ hero = [x |-> 0, y |-> 0]
    /\ Len(calls) >= 4
    /\ calls[1] = "normal_push" /\ calls[2] = "A"
    /\ calls[4] = "pause"
    /\ trying_to_push_direction = "down"

UnitVectors == {UnitVector(d) : d \in {"up", "down", "left", "right"}}

\* C12: every push that proceeds, normal or target-only, moves the object's
\* (current_x, current_y) and the (x, y) of each of its events by one and
\* the same vector, which is one of (0,-1), (0,1), (-1,0), (1,0), whatever
\* data.trying_to_push_direction holds.
C12_PushMovesOneTile ==
    [][\A o \in ObjectIds :
         (/\ BagCardinality(promises') = BagCardinality(promises) + 1
          /\ Len(calls') >= 2
          /\ calls'[2] = o)
         => \E u \in UnitVectors :
              /\ current_x'[o] = current_x[o] + u.dx
              /\ current_y'[o] = current_y[o] + u.dy
              /\ \A i \in 1 .. Len(get_events(o)) :
                   LET e == get_events(o)[i]
                   IN /\ ev_x'[e] = ev_x[e] + u.dx
                      /\ ev_y'[e] = ev_y[e] + u.dy]_vars

\* A target-only push of "A" proceeded with the diagonal "up_left" as
\* data.trying_to_push_direction: physics is paused and the transition is
\* running, but neither the object nor its events have moved.
C12_Witness ==
    /\ pause_calls = 1
    /\ calls[1] = "target_only_push" /\ calls[2] = "A"
    /\ Called(calls, "tween")
    /\ trying_to_push_direction = "up_left"
    /\ paused
    /\ current_x["A"] = 0 /\ current_y["A"] = 0
    /\ ev_x[0] = 0 /\ ev_y[0] = 0 /\ ev_x[1] = 1 /\ ev_y[1] = 0

\* Is direction d among the activation directions of event e?
Listed(e, d) ==
    \E i \in 1 .. Len(activation_directions(e)) : activation_directions(e)[i] = d

\* C13: activate_at(d) and deactivate_at(d) with d not among the event's
\* activation_directions are no-ops: every per-direction flag and the length
\* of active are unchanged, and is_active answers as before for every
\* direction, listed or not.
C13_UnknownDirectionIsNoOp ==
    [][\A e \in EventIds, d \in Directions :
         (/\ \/ calls' = <<"activate_at", ToString(e), d>>
             \/ calls' = <<"deactivate_at", ToString(e), d>>
          /\ ~Listed(e, d))
         => /\ \A i \in 0 .. (Len(activation_directions(e)) - 1) :
                 active'[e][i] = active[e][i]
            /\ (DOMAIN active'[e]) \ {-1} = (DOMAIN active[e]) \ {-1}
            /\ \A dir \in Directions :
                 is_active(active', e, dir) = is_active(active, e, dir)]_vars

\* Event 3 listens to left and right only; after activate_at("up") on it,
\* is_active("up") answers true.
C13_Witness ==
    /\ calls = <<"activate_at", "3", "up">>
    /\ ~Listed(3, "up")
    /\ is_active(active, 3, "up")

\* C14: after any sequence of activate_at, deactivate_at, activate and
\* deactivate calls, is_active(direction) is true iff some elementary
\* direction of direction is among activation_directions and has its flag
\* set.
C14_IsActiveIffFlagSet ==
    \A e \in EventIds, dir \in Directions :
        is_active(active, e, dir) <=>
            \E k \in 1 .. Len(split_direction(dir)) :
                \E i \in 1 .. Len(activation_directions(e)) :
                    /\ activation_directions(e)[i] = split_direction(dir)[k]
                    /\ active[e][i - 1]

\* Both flags of event 3 (left, right) are clear, and is_active("up_left")
\* answers true.
C14_Witness ==
    /\ ~active[3][0]
    /\ ~active[3][1]
    /\ is_active(active, 3, "up_left")

\* C15: between two calls of reset(), ids are assigned 0, 1, 2, ... in
\* creation order, no two events created in the interval share an id,
\* id_incrementer is the number of events created since the reset, and
\* get_event(id) is the event that was assigned that id; reset() sets
\* id_incrementer to 0 and empties the identity registry.
C15_IdsSinceReset ==
    /\ [](/\ id_incrementer = Len(created)
          /\ \A i \in 1 .. Len(created) : created[i].id = i - 1
          /\ \A i, j \in 1 .. Len(created) :
                 created[i].id = created[j].id => i = j
          /\ DOMAIN TileEvent_events = {created[i].id : i \in 1 .. Len(created)}
          /\ \A i \in 1 .. Len(created) : get_event(created[i].id) = created[i])
    /\ [][calls' = <<"reset">> =>
              /\ id_incrementer' = 0
              /\ DOMAIN TileEvent_events' = {}]_vars

\* After a reset a new event has taken id 0 again, and get_event(0) is that
\* new event, not the map's first one.
C15_Witness ==
    /\ calls = <<"constructor">>
    /\ id_incrementer = 2
    /\ constructed = Len(EventTable) + 3
    /\ get_event(0) = created[1]
    /\ created[1].serial = Len(EventTable) + 2

\* C16: a push that has passed validation runs to completion: if every
\* issued transition eventually signals completion, the push of object o
\* reaches the state where data.pushing is false, physics has been resumed
\* and push_end, if supplied, has been called; and a push leaves the pushes
\* in flight in no other way.
C16_PushRunsToCompletion ==
    /\ \A o \in ObjectIds, pe \in BOOLEAN :
         (\E p \in BagToSet(promises) : p.obj = o /\ p.push_end = pe)
         ~> (/\ Len(calls) >= 3
             /\ calls[1] = "then" /\ calls[2] = o /\ calls[3] = "resume"
             /\ Called(calls, "push_end") = pe
             /\ ~pushing
             /\ ~paused)
    /\ [][BagCardinality(promises') < BagCardinality(promises) =>
              /\ Called(calls', "resume")
              /\ ~pushing'
              /\ ~paused'
              /\ \E p \in BagToSet(promises) :
                     /\ promises' = promises (-) SetToBag({p})
                     /\ Called(calls', "push_end") = p.push_end]_vars

\* The only push in flight, of "A" with a push_end hook, has completed:
\* data.pushing is false, physics runs, push_end has been called.
C16_Witness ==
    /\ calls = <<"then", "A", "resume", "push_end">>
    /\ promises = EmptyBag
    /\ ~pushing
    /\ ~paused
    /\ pause_calls = 1

\* C17: within one push that proceeds the steps come in this order: physics
\* pause; relocation of the owned events and update of current_x /
\* current_y; the before_move hook, once, if supplied; the issuing of all
\* body transitions; the completion of all transitions; physics resume; the
\* push_end hook, once, if supplied.
C17_OrderOfSteps ==
    [][/\ \A o \in ObjectIds, bm \in BOOLEAN, pe \in BOOLEAN :
            TargetOnlyPush(o, bm, pe) =>
                calls' = <<"target_only_push", o, "fire_push_movement",
                           "pause", "relocate", "current_x_y">>
                         \o (IF bm THEN <<"before_move">> ELSE <<>>)
                         \o <<"tween">>
       /\ \A o \in ObjectIds :
            (/\ NormalPush(o)
             /\ BagCardinality(promises') = BagCardinality(promises) + 1) =>
                calls' = <<"normal_push", o, "fire_push_movement",
                           "pause", "relocate", "current_x_y",
                           "tween", "tween", "tween">>
       /\ BagCardinality(promises') = BagCardinality(promises) - 1 =>
            \E p \in BagToSet(promises) :
                /\ p.pending = {}
                /\ promises' = promises (-) SetToBag({p})
                /\ calls' = <<"then", p.obj, "resume">>
                            \o (IF p.push_end THEN <<"push_end">> ELSE <<>>)
       /\ BagCardinality(promises') = BagCardinality(promises) =>
            /\ ~Called(calls', "before_move")
            /\ ~Called(calls', "push_end")
            /\ ~Called(calls', "resume")]_vars

\* A target-only push with both hooks has run from pause to push_end:
\* before_move was called with the first step, push_end with the last.
C17_Witness ==
    /\ calls = <<"then", "B", "resume", "push_end">>
    /\ pause_calls = 1
    /\ resume_calls = 1
    /\ current_y["B"] # 2 \/ current_x["B"] # 0

\* C18: when a push relocates an owned event that is not in the bucket of
\* its location_key, the registry having no bucket for that key included,
\* the removal is a silent no-op: no error is raised, every owned event is
\* shifted and inserted into its new bucket, and the push issues its
\* transitions.
C18_MissingEventIsSilent ==
    [][\A o \in ObjectIds :
         (/\ Len(calls') >= 4
          /\ calls'[2] = o
          /\ calls'[4] = "pause"
          /\ \E i \in 1 .. Len(get_events(o)) :
                 ~InBucket(events, location_key[get_events(o)[i]],
                           get_events(o)[i]))
         => /\ ~Called(calls', "throw")
            /\ BagCardinality(promises') = BagCardinality(promises) + 1
            /\ \A i \in 1 .. Len(get_events(o)) :
                 LET e == get_events(o)[i]
                     shift == event_shift(trying_to_push_direction)
                 IN /\ ev_x'[e] = ev_x[e] + shift.x
                    /\ ev_y'[e] = ev_y[e] + shift.y
                    /\ InBucket(events', get_location_key(ev_x'[e], ev_y'[e]), e)]_vars

\* The event of "B" was alone in its bucket and had been taken out of the
\* registry; a target-only push of "B" threw after pausing physics: physics
\* is paused, no push is in flight, the event has not moved.
C18_Witness ==
    /\ calls = <<"target_only_push", "B", "fire_push_movement", "pause", "throw">>
    /\ paused
    /\ promises = EmptyBag
    /\ ev_x[2] = 0 /\ ev_y[2] = 2

\* C19: get_location_key is injective over bounded signed coordinates:
\* get_location_key(x1, y1) = get_location_key(x2, y2) iff x1 = x2 and
\* y1 = y2, so that two events have the same key, and share a bucket, only
\* when they are on the same tile.
C19_KeyInjective ==
    /\ \A x1 \in KeyCoords, y1 \in KeyCoords, x2 \in KeyCoords, y2 \in KeyCoords :
         get_location_key(x1, y1) = get_location_key(x2, y2)
             <=> (x1 = x2 /\ y1 = y2)
    /\ \A e1 \in EventIds, e2 \in EventIds :
         location_key[e1] = location_key[e2]
             <=> (ev_x[e1] = ev_x[e2] /\ ev_y[e1] = ev_y[e2])
    /\ \A k \in DOMAIN events :
         \A i \in 1 .. Len(events[k]), j \in 1 .. Len(events[k]) :
             /\ ev_x[events[k][i]] = ev_x[events[k][j]]
             /\ ev_y[events[k][i]] = ev_y[events[k][j]]

\* Event 0 on tile (1, 11) and event 2 on tile (11, 1), whose coordinates
\* are written with the same digits, have been pushed and are in different
\* buckets.
C19_Witness ==
    /\ pause_calls = 2
    /\ ev_x[0] = 2 /\ ev_y[0] = 11
    /\ ev_x[2] = 12 /\ ev_y[2] = 1
    /\ location_key[0] = "2_11"
    /\ location_key[2] = "12_1"
    /\ location_key[0] # location_key[2]

\* Must the scan of the surroundings of (old_x, old_y) for target layer tl
\* clear the flag of event f for its activation direction number i?
ScanClears(reg, old_x, old_y, tl, f, i) ==
    /\ type(f) = "jump"
    /\ dynamic(f) = FALSE
    /\ tl \in activation_collision_layers(f)
    /\ \E j \in 1 .. 4 :
         LET s == get_surroundings(old_x, old_y, 2)[j]
         IN /\ InBucket(reg, get_location_key(s.x, s.y), f)
            /\ activation_directions(f)[i + 1] = get_opposite_direcion(s.direction)

\* C20: the scan of the old position of an owned event clears, for every
\* event in a bucket of a surrounding tile (radius 2) that is of type JUMP,
\* not dynamic and on the layer jump.collide_layer_shift +
\* base_collider_layer, the flag of the direction opposite to that tile's
\* offset direction, and changes no other flag of any event.
C20_OldPositionScan ==
    \A o \in ObjectIds :
        \A n \in 1 .. Len(get_events(o)) :
            LET e == get_events(o)[n]
                tl == collide_layer_shift(o) + base_collider_layer(o)
                scanned == deactivate_old_surroundings(active, events,
                               get_surroundings(ev_x[e], ev_y[e], 2), 1, tl)
            IN \A f \in EventIds :
                   \A i \in 0 .. (Len(activation_directions(f)) - 1) :
                       scanned[f][i] =
                           IF ScanClears(events, ev_x[e], ev_y[e], tl, f, i)
                           THEN FALSE
                           ELSE active[f][i]

\* "A" was pushed right from the loaded map.  The scan around (0, 0) cleared
\* "up" of event 2, two tiles below; the scan around (1, 0) cleared "left"
\* of event 3, two tiles to the right, and left the dynamic event 5, two
\* tiles to the left, alone.
C20_Witness ==
    /\ pause_calls = 1
    /\ ev_x[0] = 1 /\ ev_x[1] = 2
    /\ ~active[2][0] /\ active[2][1] /\ active[2][2] /\ active[2][3]
    /\ ~active[3][0] /\ active[3][1]
    /\ \A i \in 0 .. 3 : active[5][i]

\* The events registry reg holds, over all its buckets.
Registered(reg) ==
    {e \in EventIds : \E k \in DOMAIN reg : Count(reg[k], e) >= 1}

\* The bucket reg keeps under key k without the events in the set owned.
Remaining(reg, k, owned) ==
    IF k \in DOMAIN reg
    THEN SelectSeq(reg[k], LAMBDA f : f \notin owned)
    ELSE <<>>

\* The events get_events() of object o returns, as a set.
Owned(o) == {get_events(o)[n] : n \in 1 .. Len(get_events(o))}

\* C21: a push neither creates nor destroys events and moves only the events
\* of the pushed object: the registry holds the same events before and after,
\* the identity registry, the ids and the types are unchanged, and every
\* event the object does not own keeps x, y, location_key and its bucket,
\* the events a bucket keeps staying in their order.
C21_PushMovesOnlyOwnedEvents ==
    [][\A o \in ObjectIds :
         (/\ Len(calls') >= 2
          /\ calls'[2] = o
          /\ Called(calls', "relocate"))
         => /\ Registered(events') = Registered(events)
            /\ TileEvent_events' = TileEvent_events
            /\ created' = created
            /\ id_incrementer' = id_incrementer
            /\ \A f \in EventIds \ Owned(o) :
                   /\ ev_x'[f] = ev_x[f]
                   /\ ev_y'[f] = ev_y[f]
                   /\ location_key'[f] = location_key[f]
                   /\ InBucket(events, location_key[f], f)
                          => InBucket(events', location_key[f], f)
            /\ \A k \in (DOMAIN events) \cup (DOMAIN events') :
                   Remaining(events', k, Owned(o)) = Remaining(events, k, Owned(o))]_vars

\* "A" was pushed right once from the loaded map: its event 0 left the
\* bucket of tile (0, 0) for that of (1, 0), and the step event 4, which "A"
\* does not own, is still at (0, 0), now alone in its bucket.
C21_Witness ==
    /\ pause_calls = 1
    /\ Called(calls, "relocate")
    /\ calls[2] = "A"
    /\ InBucket(events, "1_0", 0)
    /\ "0_0" \in DOMAIN events
    /\ events["0_0"] = <<4>>
    /\ ev_x[4] = 0 /\ ev_y[4] = 0 /\ location_key[4] = "0_0"

\* Is binding i in the binding set sb keeps under key k?
InSet(sb, k, i) ==
    k \in DOMAIN sb /\ \E n \in 1 .. Len(sb[k]) : sb[k][n] = i

\* C22: a binding of a set added with persist = true, attached and held in
\* signal_bindings under its key, is still attached and still held there
\* after every step of the manager other than detach_bindings with that key.
C22_PersistentSetStaysAttached ==
    [][\A i \in DOMAIN listeners :
         \A k \in DOMAIN signal_bindings :
             (/\ listeners[i].persist
              /\ listeners[i].attached
              /\ InSet(signal_bindings, k, i)
              /\ calls' # <<"detach_bindings", ToString(k)>>)
             => /\ listeners'[i].attached
                /\ InSet(signal_bindings', k, i)]_vars

\* reset() has just run and a binding added with persist = true is
\* detached, its set gone from signal_bindings, although detach_bindings
\* was not called since the persistent set was added last.
C22_Witness ==
    /\ calls = <<"reset">>
    /\ \E i \in DOMAIN listeners :
         /\ listeners[i].persist
         /\ ~listeners[i].attached
         /\ i = Len(listeners)
         /\ \A k \in DOMAIN signal_bindings : ~InSet(signal_bindings, k, i)
         /\ \A j \in DOMAIN listeners : j # i => ~listeners[j].persist \/ listeners[j].attached

\* C23: after reset() current_signal_bindings is empty, current_set_key is
\* null, every binding current_signal_bindings held is detached, and
\* signal_bindings has no entry under the key current_set_key held, whatever
\* key that was, 0 included.
C23_ResetRemovesCurrentSet ==
    [][calls' = <<"reset">>
       => /\ current_signal_bindings' = <<>>
          /\ current_set_key' = <<>>
          /\ \A n \in 1 .. Len(current_signal_bindings) :
                 ~listeners'[current_signal_bindings[n]].attached
          /\ current_set_key # <<>>
                 => current_set_key[1] \notin DOMAIN signal_bindings']_vars

\* reset() has just run on the first set added, a non-persistent one with
\* key 0: its binding is detached and current_set_key is null, yet
\* signal_bindings still has the entry under 0.
C23_Witness ==
    /\ calls = <<"reset">>
    /\ current_set_key = <<>>
    /\ current_signal_bindings = <<>>
    /\ Len(listeners) = 1
    /\ ~listeners[1].persist
    /\ ~listeners[1].attached
    /\ InSet(signal_bindings, 0, 1)

\* C24: while disabled is true no step of the manager, be it a button
\* press, a button release or a loop timer coming due, runs an on_down or
\* on_up callback or plays a sound effect.
C24_NoCallbackWhileDisabled ==
    [][(disabled /\ disabled')
       => /\ ~Called(calls', "on_down")
          /\ ~Called(calls', "on_up")
          /\ ~Called(calls', "sfx")]_vars

\* The manager is disabled, the looped UP button pressed before that is
\* still held, and the repeating timer has just played the sound effect and
\* run the on_down callback of its control.
C24_Witness ==
    /\ disabled
    /\ is_down["UP"]
    /\ calls = <<"loop_repeat_timer", "sfx", "on_down">>

\* C25: render_function is non-null exactly while some play() has started
\* an animation that has not signalled its end yet, the end of one play
\* leaving alone the render function of a play still running; and the end
\* of a play deletes the animation played, animation_available reporting
\* NOT_AVAILABLE for its key afterwards.
C25_RenderFunctionWhilePlaying ==
    /\ [](render_function # <<>> <=> playing # EmptyBag)
    /\ [][\A a \in BattleAnimKeys, c \in CasterKeys :
            calls' = <<"play_complete", animation_key(a, c)>>
            => animation_available(animations', a, c) = "NOT_AVAILABLE"]_vars

\* Two plays overlapped, of "fire" and then of "ice"; the first has just
\* signalled its end: render_function is null although the play of "ice"
\* is still running.
C25_Witness ==
    /\ calls = <<"play_complete", "fire/hero">>
    /\ playing = SetToBag({"ice/hero"})
    /\ render_function = <<>>

====
